---- MODULE Spec2Model ----
(***************************************************************************)
(* Model of the Bilibili dynamic crawler.                                  *)
(*                                                                         *)
(*  - RawBilibiliScraper (raw_bilibili_scraper.py): scrape_raw in its      *)
(*    three modes, against a page driver whose document height, item       *)
(*    count and terminal-marker text change behind the program's back.     *)
(*  - BilibiliDynamicParser (bilibili_dynamic_parser.py): parse() and the  *)
(*    field rules, over snapshots drawn from bounded sets.                 *)
(*                                                                         *)
(* Texts whose characters matter (URLs, srcset values, exclusion entries,  *)
(* like-counter text) are sequences of one-character strings.              *)
(***************************************************************************)
EXTENDS Integers, Sequences, FiniteSets, TLC

VARIABLES
    \* ---- RawBilibiliScraper: object and call state
    raw_html_data,          \* self.raw_html_data: sequence of snapshots (capturing call number)
    pc,                     \* position inside scrape_raw ("idle" between calls)
    mode,                   \* mode argument of the running call
    driver,                 \* "None" | "up" | "quit": the local `driver`
    exc,                    \* exception in flight towards the handlers: "none" | "Exception" | "KeyboardInterrupt"
    scroll_count,
    last_height,
    new_height,
    no_new_content_count,
    max_wait_time,          \* in half seconds
    current_count,
    new_dynamics,
    polls,                  \* elapsed iterations of the running inner wait (0 outside it)
    ret,                    \* value returned by the last finished call
    raised,                 \* exception the last finished call propagated to its caller
    \* ---- page driver (environment)
    height,                 \* document.body.scrollHeight
    count,                  \* number of feed item nodes
    marker,                 \* terminal-marker text present in the page
    \* ---- observation of the run
    attempt,                \* number of scrape_raw calls started
    scrolls,                \* scroll-to-bottom commands issued in this call
    sinceGrowth,            \* scroll commands issued since the page last grew
    nfaults,                \* driver faults / stop signals delivered in this call
    firstFault,             \* <<>> or <<kind, place>> of the first one
    afterFault,             \* a scroll or poll was issued after the first fault
    absorbed,               \* a stop signal was swallowed with the loop continuing
    captured,               \* snapshots captured in this call
    snapAfterFault,         \* a snapshot was captured after the first fault
    exitWhy,                \* why the scroll loop was left
    markerAtPoint,          \* marker was present at loop head / inner poll / re-check
    quits,                  \* driver.quit() calls in this call
    cycleGrew,              \* the inner wait of the latest load cycle saw the page grow
    overThreshold,          \* the inner wait left the counter at the threshold and the loop went on
    \* ---- BilibiliDynamicParser
    html,                   \* content of html_file_path: sequence of feed item nodes
    readable,               \* html_file_path can be opened and read
    excluded_images,        \* self.excluded_images
    dynamics,               \* self.dynamics
    returns,                \* values returned by the parse() calls so far
    previews                \* outcomes of the generate_preview_file() calls so far

scraperVars == <<raw_html_data, pc, mode, driver, exc, scroll_count, last_height,
                 new_height, no_new_content_count, max_wait_time, current_count,
                 new_dynamics, polls, ret, raised, height, count, marker, attempt,
                 scrolls, sinceGrowth, nfaults, firstFault, afterFault, absorbed,
                 captured, snapAfterFault, exitWhy, markerAtPoint, quits, cycleGrew,
                 overThreshold>>

parserVars == <<html, readable, excluded_images, dynamics, returns, previews>>

vars == <<scraperVars, parserVars>>

(***************************************************************************)
(* Bounds                                                                  *)
(***************************************************************************)
MaxAttempts == 2     \* scrape_raw calls on one scraper object
MaxHeight == 3       \* the document grows up to this height
MaxCount == 2        \* the feed grows up to this many items
MaxPolls == 2        \* inner-loop polls that fit in max_wait_time
MaxFaults == 1       \* driver faults / stop signals per call

(***************************************************************************)
(* Program constants                                                       *)
(***************************************************************************)
StallThreshold == 3
InitialWait == 16
MinWait == 6
MaxWait == 24
AdjustEvery == 10
MaxScrollAttempts == 20

Modes == {"traditional", "fast", "manual"}
Outcomes == {"ok", "fault", "stop"}

Max(a, b) == IF a > b THEN a ELSE b
Min(a, b) == IF a < b THEN a ELSE b

\* places of the scroll loop where the page can change
LoopPcs == {"head", "count", "scroll", "poll", "after_poll", "wait", "recheck",
            "f_head", "f_scroll", "f_check", "f_confirm", "m_input"}

\* from the head of the loop, inside a cycle (inner poll and what follows it) and
\* around the growth wait: every place of the loop but the few statements between
\* the queries at the head and the scroll command (lines 128-146)
MarkerPoints == {"head", "poll", "after_poll", "wait", "recheck"}

(***************************************************************************)
(* Bookkeeping shared by the steps                                         *)
(***************************************************************************)
CanInject(f) == f = "ok" \/ nfaults < MaxFaults

Note(f, place, issued) ==
    /\ nfaults' = IF f = "ok" THEN nfaults ELSE nfaults + 1
    /\ firstFault' = IF f # "ok" /\ firstFault = <<>> THEN <<f, place>> ELSE firstFault
    /\ afterFault' = (afterFault \/ (issued /\ firstFault # <<>>))

ExcOf(f) == IF f = "stop" THEN "KeyboardInterrupt" ELSE "Exception"

SeeMarker(newpc, m) ==
    markerAtPoint' = (markerAtPoint \/ (m /\ newpc \in MarkerPoints /\ mode = "traditional"))

ParserIdle == UNCHANGED parserVars

\* a step that is no part of the inner wait of a load cycle
Quiet == UNCHANGED <<cycleGrew, overThreshold>>

(***************************************************************************)
(* Page driver: the page grows and the terminal marker appears             *)
(***************************************************************************)
PageGrowsHeight ==
    /\ pc \in LoopPcs
    /\ height < MaxHeight
    /\ height' = height + 1
    /\ sinceGrowth' = 0
    /\ UNCHANGED <<raw_html_data, pc, mode, driver, exc, scroll_count, last_height,
                   new_height, no_new_content_count, max_wait_time, current_count,
                   new_dynamics, polls, ret, raised, count, marker, attempt, scrolls,
                   nfaults, firstFault, afterFault, absorbed, captured, snapAfterFault,
                   exitWhy, markerAtPoint, quits>>
    /\ ParserIdle
    /\ Quiet

PageGrowsCount ==
    /\ pc \in LoopPcs
    /\ count < MaxCount
    /\ count' = count + 1
    /\ sinceGrowth' = 0
    /\ UNCHANGED <<raw_html_data, pc, mode, driver, exc, scroll_count, last_height,
                   new_height, no_new_content_count, max_wait_time, current_count,
                   new_dynamics, polls, ret, raised, height, marker, attempt, scrolls,
                   nfaults, firstFault, afterFault, absorbed, captured, snapAfterFault,
                   exitWhy, markerAtPoint, quits>>
    /\ ParserIdle
    /\ Quiet

\* the end-of-content text is part of the page from the moment it is rendered
MarkerAppears ==
    /\ pc \in LoopPcs
    /\ ~marker
    /\ marker' = TRUE
    /\ SeeMarker(pc, TRUE)
    /\ UNCHANGED <<raw_html_data, pc, mode, driver, exc, scroll_count, last_height,
                   new_height, no_new_content_count, max_wait_time, current_count,
                   new_dynamics, polls, ret, raised, height, count, attempt, scrolls,
                   sinceGrowth, nfaults, firstFault, afterFault, absorbed, captured,
                   snapAfterFault, exitWhy, quits>>
    /\ ParserIdle
    /\ Quiet

(***************************************************************************)
(* scrape_raw: entry, boot, failure path                                   *)
(***************************************************************************)
locals == <<scroll_count, last_height, new_height, no_new_content_count,
            max_wait_time, current_count, new_dynamics, polls>>

Frame ==
    /\ UNCHANGED <<raw_html_data, mode, driver, ret, raised, height, count, marker,
                   attempt, captured, snapAfterFault, quits>>
    /\ ParserIdle

\* a driver fault or a stop signal that no handler around the statement swallows
Raise(f, place, issued) ==
    /\ f # "ok"
    /\ CanInject(f)
    /\ Note(f, place, issued)
    /\ exc' = ExcOf(f)
    /\ pc' = "finally"
    /\ UNCHANGED <<locals, scrolls, sinceGrowth, absorbed, exitWhy, markerAtPoint>>
    /\ Frame

scrape_raw(m) ==
    /\ pc = "idle"
    /\ attempt < MaxAttempts
    /\ \E created \in BOOLEAN :
        /\ driver' = IF created THEN "up" ELSE "None"
        /\ exc' = IF created THEN "none" ELSE "Exception"
        /\ pc' = IF created THEN "boot" ELSE "finally"
    /\ attempt' = attempt + 1
    /\ mode' = m
    /\ ret' = <<>>
    /\ raised' = "none"
    /\ scroll_count' = 0 /\ last_height' = 0 /\ new_height' = 0
    /\ no_new_content_count' = 0 /\ max_wait_time' = InitialWait
    /\ current_count' = 0 /\ new_dynamics' = 0 /\ polls' = 0
    /\ height' = 0 /\ count' = 0 /\ marker' = FALSE
    /\ scrolls' = 0 /\ sinceGrowth' = 0 /\ nfaults' = 0 /\ firstFault' = <<>>
    /\ afterFault' = FALSE /\ absorbed' = FALSE /\ captured' = 0
    /\ snapAfterFault' = FALSE /\ exitWhy' = "none" /\ markerAtPoint' = FALSE
    /\ quits' = 0
    /\ cycleGrew' = FALSE /\ overThreshold' = FALSE
    /\ UNCHANGED raw_html_data
    /\ ParserIdle

\* driver.get, the two boot waits and the user-name lookup; then the loop's locals
boot ==
    /\ pc = "boot"
    /\ \E f \in Outcomes :
        \/ /\ f = "ok"
           /\ \E m0 \in BOOLEAN :
                /\ marker' = m0
                /\ pc' = CASE mode = "traditional" -> "head"
                           [] mode = "fast" -> "f_head"
                           [] OTHER -> "m_input"
                /\ markerAtPoint' = (m0 /\ mode = "traditional")
           /\ height' = 1
           /\ count' = 1
           /\ scroll_count' = 0
           /\ last_height' = 0
           /\ no_new_content_count' = 0
           /\ max_wait_time' = InitialWait
           /\ UNCHANGED <<new_height, current_count, new_dynamics, polls, exc, scrolls,
                          sinceGrowth, nfaults, firstFault, afterFault, absorbed, exitWhy>>
           /\ UNCHANGED <<raw_html_data, mode, driver, ret, raised, attempt, captured,
                          snapAfterFault, quits>>
           /\ ParserIdle
        \/ Raise(f, "boot", TRUE)
    /\ Quiet

(***************************************************************************)
(* scrape_raw, traditional mode: the scroll loop                           *)
(***************************************************************************)
\* the threshold test with > in place of >=
stall_limit_reached_late(n) == n > StallThreshold

\* lines 180 and 214: `if no_new_content_count >= 3`
stall_limit_reached(n) == n >= StallThreshold

\* a wait for growth that has no time limit
wait_without_limit == FALSE

\* line 204: WebDriverWait(driver, 10) gives up after ten seconds
wait_times_out == TRUE

\* leave the loop by break
BreakLoop(why) ==
    /\ pc' = "extract"
    /\ exitWhy' = why

\* the marker query at the head of the loop left out
end_text_at_head_skipped(a) == FALSE

\* lines 122-128: the terminal-marker query at the head of the loop; a fault in it
\* is swallowed and the marker counts as not seen
end_text_at_head(a) == a = "ok" /\ marker

\* lines 121-137: the two quick checks at the head of the loop.  A fault in
\* either query is swallowed by its bare except and the check counts as negative.
loop_head ==
    /\ pc = "head"
    /\ \E a \in Outcomes, b \in Outcomes, noDynamic \in BOOLEAN :
        /\ a = "ok" \/ b = "ok"
        /\ CanInject(a) /\ CanInject(b)
        /\ LET f == IF a # "ok" THEN a ELSE b
               endSeen == end_text_at_head(a)
               noneSeen == b = "ok" /\ noDynamic
           IN  /\ Note(f, IF a # "ok" THEN "marker" ELSE "nodynamic", TRUE)
               /\ absorbed' = (absorbed \/ (f = "stop" /\ ~endSeen /\ ~noneSeen))
               /\ IF endSeen THEN BreakLoop("marker")
                  ELSE IF noneSeen THEN BreakLoop("nodynamic")
                  ELSE pc' = "count" /\ UNCHANGED exitWhy
    /\ UNCHANGED <<locals, exc, scrolls, sinceGrowth, markerAtPoint>>
    /\ Frame
    /\ Quiet

\* lines 140-143
read_count ==
    /\ pc = "count"
    /\ \E f \in Outcomes :
        \/ /\ f = "ok"
           /\ current_count' = count
           /\ pc' = "scroll"
           /\ Note(f, "count", TRUE)
           /\ UNCHANGED <<scroll_count, last_height, new_height, no_new_content_count,
                          max_wait_time, new_dynamics, polls, exc, scrolls, sinceGrowth,
                          absorbed, exitWhy, markerAtPoint>>
           /\ Frame
        \/ Raise(f, "count", TRUE)
    /\ Quiet

\* lines 146-150: the scroll-to-bottom command, start of the inner wait
scroll_to_bottom ==
    /\ pc = "scroll"
    /\ \E f \in Outcomes :
        \/ /\ f = "ok"
           /\ scrolls' = scrolls + 1
           /\ sinceGrowth' = sinceGrowth + 1
           /\ new_height' = last_height
           /\ polls' = 0
           /\ pc' = "poll"
           /\ SeeMarker("poll", marker)
           /\ Note(f, "scroll", TRUE)
           /\ cycleGrew' = FALSE
           /\ UNCHANGED <<scroll_count, last_height, no_new_content_count, max_wait_time,
                          current_count, new_dynamics, exc, absorbed, exitWhy,
                          overThreshold>>
           /\ Frame
        \/ Raise(f, "scroll", TRUE) /\ Quiet

\* lines 152-173: one iteration of the inner wait loop
poll ==
    /\ pc = "poll"
    /\ polls < MaxPolls
    /\ \E f \in Outcomes, g \in Outcomes :
        \/ /\ f = "ok"
           /\ CanInject(g)
           /\ new_height' = height
           /\ new_dynamics' = count
           /\ LET grew == height > last_height \/ count > current_count
                  endSeen == g = "ok" /\ marker
              IN  /\ grew => g = "ok"
                  /\ no_new_content_count' = IF grew THEN 0 ELSE no_new_content_count
                  /\ cycleGrew' = grew
                  /\ pc' = IF grew \/ endSeen THEN "after_poll" ELSE "poll"
                  /\ polls' = IF grew \/ endSeen THEN 0 ELSE polls + 1
                  /\ absorbed' = (absorbed \/ (~grew /\ g = "stop"))
                  /\ SeeMarker(IF grew \/ endSeen THEN "after_poll" ELSE "poll", marker)
           /\ Note(g, "marker", TRUE)
           /\ UNCHANGED <<scroll_count, last_height, max_wait_time, current_count, exc,
                          scrolls, sinceGrowth, exitWhy, overThreshold>>
           /\ Frame
        \/ /\ g = "ok"
           /\ Raise(f, "poll", TRUE)
           /\ Quiet

\* lines 174-187: the else branch of the inner wait loop (max_wait_time elapsed)
poll_timeout ==
    /\ pc = "poll"
    /\ polls >= 1
    /\ \E f \in Outcomes :
        \/ /\ f = "ok"
           /\ no_new_content_count' = no_new_content_count + 1
           /\ IF stall_limit_reached(no_new_content_count + 1) /\ count = current_count
                THEN BreakLoop("stall_inner")
                ELSE pc' = "after_poll" /\ UNCHANGED exitWhy
           /\ overThreshold' = (overThreshold \/ (stall_limit_reached(no_new_content_count + 1)
                                                   /\ count # current_count))
           /\ Note(f, "final_check", stall_limit_reached(no_new_content_count + 1))
           /\ polls' = 0
           /\ UNCHANGED <<scroll_count, last_height, new_height, max_wait_time,
                          current_count, new_dynamics, exc, scrolls, sinceGrowth,
                          absorbed, markerAtPoint, cycleGrew>>
           /\ Frame
        \/ /\ stall_limit_reached(no_new_content_count + 1)
           /\ f # "ok" /\ CanInject(f)
           /\ Note(f, "final_check", TRUE)
           /\ no_new_content_count' = no_new_content_count + 1
           /\ exc' = ExcOf(f)
           /\ pc' = "finally"
           /\ polls' = 0
           /\ UNCHANGED <<scroll_count, last_height, new_height, max_wait_time,
                          current_count, new_dynamics, scrolls, sinceGrowth,
                          absorbed, exitWhy, markerAtPoint>>
           /\ Frame
           /\ Quiet

\* lines 189-200: bookkeeping after the inner wait, then sleep(2)
after_poll ==
    /\ pc = "after_poll"
    /\ last_height' = new_height
    /\ scroll_count' = scroll_count + 1
    /\ max_wait_time' =
         IF (scroll_count + 1) % AdjustEvery = 0
           THEN IF no_new_content_count = 0
                  THEN Max(MinWait, max_wait_time - 1)
                  ELSE Min(MaxWait, max_wait_time + 2)
           ELSE max_wait_time
    /\ \E f \in {"ok", "stop"} :
        /\ CanInject(f)
        /\ Note(f, "sleep", FALSE)
        /\ exc' = IF f = "ok" THEN exc ELSE ExcOf(f)
        /\ pc' = IF f = "ok" THEN "wait" ELSE "finally"
    /\ UNCHANGED <<new_height, no_new_content_count, current_count, new_dynamics, polls,
                   scrolls, sinceGrowth, absorbed, exitWhy, markerAtPoint>>
    /\ Frame
    /\ Quiet

\* lines 202-216: WebDriverWait for the height to exceed last_height; TimeoutException,
\* a driver fault and a stop signal all land in the same bare except
growth_wait ==
    /\ pc = "wait"
    /\ \E f \in Outcomes :
        /\ CanInject(f)
        /\ (f = "ok" /\ height <= last_height) => wait_times_out
        /\ Note(f, "wait", TRUE)
        /\ absorbed' = (absorbed \/ f = "stop")
        /\ IF f = "ok" /\ height > last_height
             THEN /\ no_new_content_count' = 0
                  /\ pc' = "recheck"
                  /\ SeeMarker("recheck", marker)
                  /\ UNCHANGED exitWhy
             ELSE /\ no_new_content_count' = no_new_content_count + 1
                  /\ IF stall_limit_reached(no_new_content_count + 1)
                       THEN BreakLoop("stall_wait") /\ UNCHANGED markerAtPoint
                       ELSE /\ pc' = "recheck"
                            /\ SeeMarker("recheck", marker)
                            /\ UNCHANGED exitWhy
    /\ UNCHANGED <<scroll_count, last_height, new_height, max_wait_time, current_count,
                   new_dynamics, polls, exc, scrolls, sinceGrowth>>
    /\ Frame
    /\ Quiet

\* lines 218-237: read the height again; when it did not change look for the marker
recheck ==
    /\ pc = "recheck"
    /\ \E f \in Outcomes, g \in Outcomes :
        \/ /\ f = "ok"
           /\ CanInject(g)
           /\ height # last_height => g = "ok"
           /\ new_height' = height
           /\ Note(g, "marker", TRUE)
           /\ absorbed' = (absorbed \/ g = "stop")
           /\ IF height = last_height /\ g = "ok" /\ marker
                THEN /\ BreakLoop("marker_recheck")
                     /\ UNCHANGED <<last_height, scroll_count, markerAtPoint>>
                ELSE /\ last_height' = height
                     /\ scroll_count' = scroll_count + 1
                     /\ pc' = "head"
                     /\ SeeMarker("head", marker)
                     /\ UNCHANGED exitWhy
           /\ UNCHANGED <<no_new_content_count, max_wait_time, current_count,
                          new_dynamics, polls, exc, scrolls, sinceGrowth>>
           /\ Frame
        \/ /\ g = "ok"
           /\ Raise(f, "recheck", TRUE)
    /\ Quiet

(***************************************************************************)
(* _scrape_fast_mode: the loop                                             *)
(***************************************************************************)
\* lines 305-323
fast_head ==
    /\ pc = "f_head"
    /\ \E f \in Outcomes, endClass \in BOOLEAN :
        \/ /\ f = "ok"
           /\ Note(f, "count", scroll_count < MaxScrollAttempts)
           /\ IF scroll_count >= MaxScrollAttempts
                THEN BreakLoop("limit") /\ UNCHANGED current_count
                ELSE /\ current_count' = count
                     /\ IF endClass \/ marker
                          THEN BreakLoop("marker")
                          ELSE pc' = "f_scroll" /\ UNCHANGED exitWhy
           /\ UNCHANGED <<scroll_count, last_height, new_height, no_new_content_count,
                          max_wait_time, new_dynamics, polls, exc, scrolls, sinceGrowth,
                          absorbed, markerAtPoint>>
           /\ Frame
        \/ /\ scroll_count < MaxScrollAttempts
           /\ ~endClass
           /\ Raise(f, "count", TRUE)
    /\ Quiet

\* lines 326-332
fast_scroll ==
    /\ pc = "f_scroll"
    /\ \E f \in Outcomes :
        \/ /\ f = "ok"
           /\ Note(f, "scroll", TRUE)
           /\ last_height' = height
           /\ scrolls' = scrolls + 1
           /\ sinceGrowth' = sinceGrowth + 1
           /\ pc' = "f_check"
           /\ UNCHANGED <<scroll_count, new_height, no_new_content_count, max_wait_time,
                          current_count, new_dynamics, polls, exc, absorbed, exitWhy,
                          markerAtPoint>>
           /\ Frame
        \/ Raise(f, "scroll", TRUE)
    /\ Quiet

\* lines 335-341 and 353-357
fast_check ==
    /\ pc = "f_check"
    /\ \E f \in Outcomes :
        \/ /\ f = "ok"
           /\ Note(f, "poll", TRUE)
           /\ new_height' = height
           /\ new_dynamics' = count
           /\ IF height = last_height /\ count = current_count
                THEN pc' = "f_confirm" /\ UNCHANGED scroll_count
                ELSE pc' = "f_head" /\ scroll_count' = scroll_count + 1
           /\ UNCHANGED <<last_height, no_new_content_count, max_wait_time, current_count,
                          polls, exc, scrolls, sinceGrowth, absorbed, exitWhy,
                          markerAtPoint>>
           /\ Frame
        \/ Raise(f, "poll", TRUE)
    /\ Quiet

\* lines 343-357: the confirmation after three more seconds
fast_confirm ==
    /\ pc = "f_confirm"
    /\ \E f \in Outcomes :
        \/ /\ f = "ok"
           /\ Note(f, "final_check", TRUE)
           /\ IF height = new_height /\ count = new_dynamics
                THEN BreakLoop("stable") /\ UNCHANGED scroll_count
                ELSE /\ pc' = "f_head"
                     /\ scroll_count' = scroll_count + 1
                     /\ UNCHANGED exitWhy
           /\ UNCHANGED <<last_height, new_height, no_new_content_count, max_wait_time,
                          current_count, new_dynamics, polls, exc, scrolls, sinceGrowth,
                          absorbed, markerAtPoint>>
           /\ Frame
        \/ Raise(f, "final_check", TRUE)
    /\ Quiet

(***************************************************************************)
(* _scrape_manual_mode: the operator scrolls and presses Enter             *)
(***************************************************************************)
\* line 441
manual_input ==
    /\ pc = "m_input"
    /\ \E f \in Outcomes :
        \/ /\ f = "ok"
           /\ Note(f, "input", FALSE)
           /\ BreakLoop("manual")
           /\ UNCHANGED <<locals, exc, scrolls, sinceGrowth, absorbed, markerAtPoint>>
           /\ Frame
        \/ Raise(f, "input", FALSE)
    /\ Quiet

(***************************************************************************)
(* extract_raw_html and the way out of scrape_raw                          *)
(***************************************************************************)
\* lines 473-513 (called at 240, 364, 444): settle delay, then one snapshot.  A driver
\* fault is swallowed inside; a stop signal is not an Exception and leaves the method.
extract_raw_html ==
    /\ pc = "extract"
    /\ \E f \in Outcomes :
        /\ CanInject(f)
        /\ Note(f, "capture", TRUE)
        /\ raw_html_data' = IF f = "ok" THEN Append(raw_html_data, attempt)
                                        ELSE raw_html_data
        /\ captured' = IF f = "ok" THEN captured + 1 ELSE captured
        /\ snapAfterFault' = (snapAfterFault \/ (f = "ok" /\ firstFault # <<>>))
        /\ exc' = IF f = "stop" THEN ExcOf(f) ELSE exc
    /\ pc' = "finally"
    /\ UNCHANGED <<locals, scrolls, sinceGrowth, absorbed, exitWhy, markerAtPoint>>
    /\ UNCHANGED <<mode, driver, ret, raised, height, count, marker, attempt, quits>>
    /\ ParserIdle
    /\ Quiet

\* a way out that leaves the driver as it is
quit_driver_skipped(d) == d

\* lines 245-246, 390-391, 470-471: `if driver: driver.quit()`
quit_driver(d) == IF d = "up" THEN "quit" ELSE d

\* traditional mode, lines 242-248: the return inside finally discards whatever
\* exception is in flight.  fast/manual, lines 385-392 and 464-471: except Exception
\* returns []; anything else propagates after finally.
finally ==
    /\ pc = "finally"
    /\ quits' = IF quit_driver(driver) # driver THEN quits + 1 ELSE quits
    /\ driver' = quit_driver(driver)
    /\ IF mode = "traditional"
         THEN ret' = raw_html_data /\ raised' = "none"
         ELSE /\ ret' = IF exc = "none" THEN raw_html_data ELSE <<>>
              /\ raised' = IF exc = "KeyboardInterrupt" THEN exc ELSE "none"
    /\ exc' = "none"
    /\ pc' = "idle"
    /\ UNCHANGED <<locals, scrolls, sinceGrowth, nfaults, firstFault, afterFault,
                   absorbed, exitWhy, markerAtPoint>>
    /\ UNCHANGED <<raw_html_data, mode, height, count, marker, attempt, captured,
                   snapAfterFault>>
    /\ ParserIdle
    /\ Quiet

(***************************************************************************)
(* BilibiliDynamicParser: texts                                            *)
(*                                                                         *)
(* A URL, a srcset value, an exclusion entry and a counter text are        *)
(* sequences of characters; "W" stands for the ten-thousand character.     *)
(* A title, time or body text is a sequence of words.                      *)
(***************************************************************************)
Https == <<"h", "t", "t", "p", "s", ":">>
Slashes == <<"/", "/">>
Digits == {"0", "1", "2", "3", "4", "5", "6", "7", "8", "9"}
Letters == {"a", "b", "h", "t", "p", "s", "x"}

\* str.startswith
StartsWith(s, p) == Len(s) >= Len(p) /\ SubSeq(s, 1, Len(p)) = p

\* the `in` operator on str
Contains(s, sub) ==
    \E i \in 1..(Len(s) - Len(sub) + 1) : SubSeq(s, i, i + Len(sub) - 1) = sub

\* the rewriting of a protocol-relative URL, lines 62-63, 152-153, 164-165, 243-244, 252-253
AddScheme(src) == IF StartsWith(src, Slashes) THEN Https \o src ELSE src

\* the exclusion test applied to the URL as written in the page
is_excluded_image_raw(image_url) ==
    IF image_url = <<>> THEN FALSE
    ELSE \E excluded \in excluded_images : Contains(image_url, excluded)

\* lines 48-69
is_excluded_image(image_url) ==
    IF image_url = <<>> THEN FALSE
    ELSE \E excluded \in excluded_images : Contains(AddScheme(image_url), excluded)

\* index of the first character of s at or after k that is in set, or Len(s)+1
RECURSIVE FirstIn(_, _, _)
FirstIn(s, k, set) ==
    IF k > Len(s) THEN Len(s) + 1
    ELSE IF s[k] \in set THEN k
    ELSE FirstIn(s, k + 1, set)

\* index of the first character of s at or after k that is not in set, or Len(s)+1
RECURSIVE FirstNotIn(_, _, _)
FirstNotIn(s, k, set) ==
    IF k > Len(s) THEN Len(s) + 1
    ELSE IF s[k] \notin set THEN k
    ELSE FirstNotIn(s, k + 1, set)

\* line 162: srcset.split(',')[0].strip().split()[0]; <<>> stands for the IndexError
\* of taking [0] of an empty list
FirstCandidate(srcset) ==
    LET head == SubSeq(srcset, 1, FirstIn(srcset, 1, {","}) - 1)
        from == FirstNotIn(head, 1, {" "})
        to == FirstIn(head, from, {" "}) - 1
    IN  SubSeq(head, from, to)

RECURSIVE ToInt(_)
ToInt(ds) ==
    IF ds = <<>> THEN 0
    ELSE 10 * ToInt(SubSeq(ds, 1, Len(ds) - 1))
         + (CHOOSE n \in 0..9 : <<"0", "1", "2", "3", "4", "5", "6", "7", "8", "9">>[n + 1] = ds[Len(ds)])

RECURSIVE Pow10(_)
Pow10(n) == IF n = 0 THEN 1 ELSE 10 * Pow10(n - 1)

Without(s, c) == SelectSeq(s, LAMBDA e : e # c)

\* line 190: re.search(r'(\d+(?:\.\d+)?[W]?\d*)', like_text); <<>> when there is no match
LikeMatch(text) ==
    LET i == FirstIn(text, 1, Digits)
        j1 == FirstNotIn(text, i, Digits)
        j2 == IF j1 + 1 <= Len(text) /\ text[j1] = "." /\ text[j1 + 1] \in Digits
                THEN FirstNotIn(text, j1 + 1, Digits) ELSE j1
        j3 == IF j2 <= Len(text) /\ text[j2] = "W" THEN j2 + 1 ELSE j2
        j4 == FirstNotIn(text, j3, Digits)
    IN  IF i > Len(text) THEN <<>> ELSE SubSeq(text, i, j4 - 1)

\* lines 203 and 211: re.search(r'(\d+)', text)
DigitsMatch(text) ==
    LET i == FirstIn(text, 1, Digits)
    IN  IF i > Len(text) THEN <<>> ELSE SubSeq(text, i, FirstNotIn(text, i, Digits) - 1)

\* line 194-195: int(float(s) * 10000) for s of the form digits[.digits]
TimesTenThousand(s) ==
    LET dot == FirstIn(s, 1, {"."})
        frac == IF dot > Len(s) THEN 0 ELSE Len(s) - dot
    IN  (ToInt(Without(s, ".")) * 10000) \div Pow10(frac)

\* lines 186-197: the like counter; ok = FALSE stands for the ValueError of int()
LikeCount(node) ==
    IF node = <<>> THEN [ok |-> TRUE, val |-> 0]
    ELSE LET like_count == LikeMatch(node[1])
         IN  IF like_count = <<>> THEN [ok |-> TRUE, val |-> 0]
             ELSE IF Contains(like_count, <<"W">>)
               THEN [ok |-> TRUE, val |-> TimesTenThousand(Without(like_count, "W"))]
             ELSE IF Contains(like_count, <<".">>)
               THEN [ok |-> FALSE, val |-> 0]
             ELSE [ok |-> TRUE, val |-> ToInt(like_count)]

\* lines 199-213: comment and share counters
PlainCount(node) ==
    IF node = <<>> THEN 0
    ELSE ToInt(DigitsMatch(node[1]))

(***************************************************************************)
(* BilibiliDynamicParser: one feed item node and the field rules           *)
(*                                                                         *)
(* An optional node or attribute is <<>> (absent) or <<value>>.            *)
(***************************************************************************)
SentinelDate == "2022-05-14"
SentinelText == "sentinel-text"
SubmittedMarker == "submitted-video"
Dates == {SentinelDate, "2023-01-02"}

NoItem ==
    [ title |-> <<>>,        \* .bili-dyn-title__text: its text
      time |-> <<>>,         \* .bili-dyn-time: its text, a sequence of words
      content |-> <<>>,      \* .bili-rich-text__content: [text, imgs] (imgs nested in it)
      desc |-> <<>>,         \* .bili-dyn-card-video__desc: its text
      card |-> <<>>,         \* .bili-dyn-card-video: [href, title, cover, duration]
      album |-> FALSE,       \* .bili-album
      imgs |-> <<>>,         \* src of the other img[src] nodes
      sources |-> <<>>,      \* srcset of the source[srcset] nodes
      like |-> <<>>,         \* .bili-dyn-action.like: its text
      comment |-> <<>>,      \* .bili-dyn-action.comment: its text
      forward |-> <<>> ]     \* .bili-dyn-action.forward: its text

NoCard == [href |-> <<>>, title |-> <<>>, cover |-> <<>>, duration |-> <<>>]

\* the date pattern of lines 100 and 279 on a text of words: the first date, if any
DateMatch(time_text) ==
    LET i == FirstIn(time_text, 1, Dates)
    IN  IF i > Len(time_text) THEN <<>> ELSE <<time_text[i]>>

\* lines 71-84
extract_username(item) ==
    IF item.title # <<>> THEN item.title[1] ELSE <<"unknown-user">>

\* lines 86-104
extract_publish_time(item) ==
    IF item.time # <<>>
      THEN IF DateMatch(item.time[1]) # <<>> THEN DateMatch(item.time[1]) ELSE item.time[1]
      ELSE <<"unknown-time">>

\* the classification with the gallery test placed before the video-card test
determine_dynamic_type_album_first(item) ==
    IF /\ item.time # <<>>
       /\ DateMatch(item.time[1]) = <<SentinelDate>>
       /\ item.content # <<>>
       /\ Contains(item.content[1].text, <<SentinelText>>)
      THEN "Pinned"
    ELSE IF item.album THEN "ImagePost"
    ELSE IF item.card # <<>>
      THEN IF item.time # <<>> /\ Contains(item.time[1], <<SubmittedMarker>>)
             THEN "SubmittedVideo" ELSE "DynamicVideo"
    ELSE "TextPost"

\* lines 263-298
determine_dynamic_type(item) ==
    IF /\ item.time # <<>>
       /\ DateMatch(item.time[1]) = <<SentinelDate>>
       /\ item.content # <<>>
       /\ Contains(item.content[1].text, <<SentinelText>>)
      THEN "Pinned"
    ELSE IF item.card # <<>>
      THEN IF item.time # <<>> /\ Contains(item.time[1], <<SubmittedMarker>>)
             THEN "SubmittedVideo" ELSE "DynamicVideo"
    ELSE IF item.album THEN "ImagePost"
    ELSE "TextPost"

\* lines 119-123: decompose() removes the images nested in the rich-text node from the tree
StripContentImages(item) ==
    IF item.content = <<>> THEN item
    ELSE [item EXCEPT !.content = <<[text |-> item.content[1].text, imgs |-> <<>>]>>]

\* lines 106-132, the text it returns
extract_text_content(item) ==
    IF item.content # <<>> /\ item.content[1].text # <<>> THEN item.content[1].text
    ELSE IF item.desc # <<>> THEN item.desc[1]
    ELSE <<>>

\* item.select('img[src]'): every image node of the item, in document order
ImageSources(item) ==
    (IF item.content = <<>> THEN <<>> ELSE item.content[1].imgs)
    \o (IF item.card = <<>> THEN <<>> ELSE item.card[1].cover)
    \o item.imgs

Range(seq) == {seq[i] : i \in DOMAIN seq}

\* lines 134-168; ok = FALSE stands for the IndexError of line 162
extract_images(item) ==
    LET fromImg == {AddScheme(src) : src \in
                       {u \in Range(ImageSources(item)) : u # <<>> /\ ~is_excluded_image(u)}}
        sets == {ss \in Range(item.sources) : ss # <<>>}
        fromSource == {AddScheme(src) : src \in
                       {c \in {FirstCandidate(ss) : ss \in sets} : ~is_excluded_image(c)}}
    IN  IF \E ss \in sets : FirstCandidate(ss) = <<>>
          THEN [ok |-> FALSE, val |-> {}]
          ELSE [ok |-> TRUE, val |-> fromImg \cup fromSource]

\* lines 170-215
extract_interaction_counts(item) ==
    [ ok |-> LikeCount(item.like).ok,
      like |-> LikeCount(item.like).val,
      comment |-> PlainCount(item.comment),
      share |-> PlainCount(item.forward) ]

\* lines 217-261
extract_video_info(item) ==
    LET card == IF item.card = <<>> THEN NoCard ELSE item.card[1]
        src == IF card.cover = <<>> THEN <<>> ELSE card.cover[1]
    IN  [ title |-> IF card.title = <<>> THEN <<>> ELSE card.title[1],
          link |-> IF card.href = <<>> THEN <<>> ELSE AddScheme(card.href[1]),
          cover |-> IF src # <<>> /\ ~is_excluded_image(src) THEN AddScheme(src) ELSE <<>>,
          duration |-> IF card.duration = <<>> THEN <<>> ELSE card.duration[1] ]

\* the video fields attached to every item that has a video card
video_fields_any_card(dynamic_type, item) ==
    IF item.card # <<>> THEN <<extract_video_info(item)>> ELSE <<>>

\* lines 342-349: the video fields are added for the two video types only
video_fields(dynamic_type, item) ==
    IF dynamic_type \in {"SubmittedVideo", "DynamicVideo"}
      THEN <<extract_video_info(item)>> ELSE <<>>

\* lines 320-354: the body of the loop for one item; <<>> when a field rule raised,
\* <<record>> otherwise
ParseItem(item) ==
    LET username == extract_username(item)
        publish_time == extract_publish_time(item)
        dynamic_type == determine_dynamic_type(item)
        text_content == extract_text_content(item)
        images == extract_images(StripContentImages(item))
        interaction == extract_interaction_counts(item)
    IN  IF ~images.ok \/ ~interaction.ok THEN <<>>
        ELSE << [ username |-> username,
                  publish_time |-> publish_time,
                  dynamic_type |-> dynamic_type,
                  text_content |-> text_content,
                  images |-> images.val,
                  like_count |-> interaction.like,
                  comment_count |-> interaction.comment,
                  share_count |-> interaction.share,
                  video |-> video_fields(dynamic_type, item) ] >>

\* lines 319-354: the records the loop appends, in document order
RECURSIVE ParseItems(_)
ParseItems(items) ==
    IF items = <<>> THEN <<>>
    ELSE ParseItem(Head(items)) \o ParseItems(Tail(items))

MaxParseCalls == 2   \* parse() calls on one parser object

\* lines 300-356
parse ==
    /\ Len(returns) < MaxParseCalls
    /\ IF readable
         THEN /\ dynamics' = dynamics \o ParseItems(html)
              /\ returns' = Append(returns, dynamics')
         ELSE /\ returns' = Append(returns, <<>>)
              /\ UNCHANGED dynamics
    /\ UNCHANGED <<html, readable, excluded_images, previews>>
    /\ UNCHANGED scraperVars

MaxPreviewCalls == 1   \* generate_preview_file() calls on one parser object

\* a writer that drops each record from self.dynamics once its block is written
records_consumed_by_preview(written) == SubSeq(dynamics, written + 1, Len(dynamics))

\* lines 375-403: the loop reads self.dynamics and nothing in the method assigns it
records_after_preview(written) == dynamics

\* lines 358-409. failed: open() or a write raised (an OSError, caught at line 405);
\* written: the record blocks that reached the file before that
generate_preview_file ==
    /\ Len(previews) < MaxPreviewCalls
    /\ \E failed \in BOOLEAN : \E written \in 0..Len(dynamics) :
          /\ ~failed => written = Len(dynamics)
          /\ dynamics' = records_after_preview(written)
          /\ previews' = Append(previews,
                [ failed |-> failed,
                  written |-> written,
                  result |-> IF failed THEN <<>> ELSE <<"output_file_path">> ])
    /\ UNCHANGED <<html, readable, excluded_images, returns>>
    /\ UNCHANGED scraperVars

(***************************************************************************)
(* The scraper as a system                                                 *)
(***************************************************************************)
NoParser ==
    /\ html = <<>>
    /\ readable = TRUE
    /\ excluded_images = {}
    /\ dynamics = <<>>
    /\ returns = <<>>
    /\ previews = <<>>

Init ==
    /\ raw_html_data = <<>>
    /\ pc = "idle"
    /\ mode = "none"
    /\ driver = "None"
    /\ exc = "none"
    /\ scroll_count = 0 /\ last_height = 0 /\ new_height = 0
    /\ no_new_content_count = 0 /\ max_wait_time = InitialWait
    /\ current_count = 0 /\ new_dynamics = 0 /\ polls = 0
    /\ ret = <<>> /\ raised = "none"
    /\ height = 0 /\ count = 0 /\ marker = FALSE
    /\ attempt = 0 /\ scrolls = 0 /\ sinceGrowth = 0 /\ nfaults = 0
    /\ firstFault = <<>> /\ afterFault = FALSE /\ absorbed = FALSE
    /\ captured = 0 /\ snapAfterFault = FALSE /\ exitWhy = "none"
    /\ markerAtPoint = FALSE /\ quits = 0
    /\ cycleGrew = FALSE /\ overThreshold = FALSE
    /\ NoParser

Next ==
    \/ \E m \in Modes : scrape_raw(m)
    \/ boot
    \/ loop_head
    \/ read_count
    \/ scroll_to_bottom
    \/ poll
    \/ poll_timeout
    \/ after_poll
    \/ growth_wait
    \/ recheck
    \/ fast_head
    \/ fast_scroll
    \/ fast_check
    \/ fast_confirm
    \/ manual_input
    \/ extract_raw_html
    \/ finally
    \/ PageGrowsHeight
    \/ PageGrowsCount
    \/ MarkerAppears

Spec == Init /\ [][Next]_vars

\* a statement of a running call: the interpreter goes on to the next statement
Step ==
    \/ boot \/ loop_head \/ read_count \/ scroll_to_bottom \/ poll \/ poll_timeout
    \/ after_poll \/ growth_wait \/ recheck \/ fast_head \/ fast_scroll \/ fast_check
    \/ fast_confirm \/ manual_input \/ extract_raw_html \/ finally

\* the scraper on a fault-free driver, with no stop signal: every command returns
NoFault == nfaults' = 0

FaultFreeNext ==
    \/ \E m \in Modes : scrape_raw(m)
    \/ boot /\ NoFault
    \/ loop_head /\ NoFault
    \/ read_count /\ NoFault
    \/ scroll_to_bottom /\ NoFault
    \/ poll /\ NoFault
    \/ poll_timeout /\ NoFault
    \/ after_poll /\ NoFault
    \/ growth_wait /\ NoFault
    \/ recheck /\ NoFault
    \/ fast_head /\ NoFault
    \/ fast_scroll /\ NoFault
    \/ fast_check /\ NoFault
    \/ fast_confirm /\ NoFault
    \/ manual_input /\ NoFault
    \/ extract_raw_html /\ NoFault
    \/ finally /\ NoFault
    \/ PageGrowsHeight
    \/ PageGrowsCount
    \/ MarkerAppears

\* ... and a running call is never left suspended
SpecFair == Init /\ [][FaultFreeNext]_vars /\ WF_vars(Step /\ NoFault)

(***************************************************************************)
(* The parser as a system: snapshots and exclusion lists it is built on    *)
(***************************************************************************)
MaxPathLen == 1      \* characters after the prefix of a URL
MaxImgs == 2         \* image nodes of a gallery item
MaxLikeLen == 4      \* characters of a like-counter text
MaxItems == 3        \* feed items of a mixed snapshot

SeqsUpTo(S, n) == UNION {[1..k -> S] : k \in 0..n}

\* absolute, protocol-relative, host-relative and bare relative URLs (and the empty one)
Prefixes == {<<>>, Slashes, <<"/">>, Https \o Slashes}
Urls == {p \o t : p \in Prefixes, t \in SeqsUpTo({"a", "b"}, MaxPathLen)}
Optional(S) == {<<>>} \cup {<<v>> : v \in S}

SrcSets == Urls
           \cup {<<" ">> \o u \o <<" ", "x", ",", "b">> : u \in Urls}
           \cup {<<" ">>, <<" ", ",", "a">>}

ExclEntries == {<<"a">>, <<"s", ":", "/">>, Slashes \o <<"b">>, Https \o Slashes \o <<"a">>}

LikeTexts == SeqsUpTo({"3", "5", ".", "W", "x"}, MaxLikeLen) \cup {<<"1", "2", "8">>}

GalleryItems == {[NoItem EXCEPT !.album = TRUE, !.imgs = s] : s \in SeqsUpTo(Urls, MaxImgs)}
SourceItems == {[NoItem EXCEPT !.sources = <<ss>>] : ss \in SrcSets}
RichTextItems ==
    {[NoItem EXCEPT !.content = <<[text |-> <<"hello">>, imgs |-> <<u>>]>>, !.imgs = <<v>>] :
        u \in Urls, v \in {Slashes \o <<"a">>, <<"b">>}}
VideoItems ==
    {[NoItem EXCEPT !.card = <<[href |-> h, title |-> <<<<"clip">>>>, cover |-> c,
                               duration |-> <<<<"01:00">>>>]>>] :
        h \in Optional(Urls), c \in Optional(Urls)}
MediaItems == GalleryItems \cup SourceItems \cup RichTextItems \cup VideoItems

LikeItems == {[NoItem EXCEPT !.like = l] : l \in Optional(LikeTexts)}

TextItem ==
    [NoItem EXCEPT !.title = <<<<"alice">>>>,
                   !.time = <<<<"2023-01-02">>>>,
                   !.content = <<[text |-> <<"hello">>, imgs |-> <<>>]>>,
                   !.like = <<<<"1", "2", "8">>>>]
SubmittedItem ==
    [NoItem EXCEPT !.title = <<<<"bob">>>>,
                   !.time = <<<<"2023-01-02", SubmittedMarker>>>>,
                   !.card = <<[href |-> <<Slashes \o <<"a">>>>, title |-> <<<<"clip">>>>,
                              cover |-> <<Slashes \o <<"b">>>>, duration |-> <<<<"01:00">>>>]>>,
                   !.like = <<<<"3", ".", "5", "W">>>>]
AlbumItem ==
    [NoItem EXCEPT !.title = <<<<"carol">>>>,
                   !.album = TRUE,
                   !.imgs = <<Slashes \o <<"a">>, Slashes \o <<"b">>>>]
BadLikeItem ==
    [NoItem EXCEPT !.title = <<<<"dave">>>>, !.like = <<<<"3", ".", "5">>>>]
BadSourceItem ==
    [NoItem EXCEPT !.title = <<<<"erin">>>>, !.sources = <<<<" ">>>>]
\* the signals the classification reads: time text, rich text, description, card, gallery
TimeTexts == {<<d>> : d \in Dates} \cup {<<d, SubmittedMarker>> : d \in Dates}
BodyTexts == {<<SentinelText>>, <<SentinelText, "more">>, <<"hello">>}
ClassCard == [NoCard EXCEPT !.href = <<Slashes \o <<"a">>>>, !.title = <<<<"clip">>>>]
ClassItems ==
    {[NoItem EXCEPT !.time = t,
                    !.content = IF b = <<>> THEN <<>> ELSE <<[text |-> b[1], imgs |-> <<>>]>>,
                    !.desc = d, !.card = c, !.album = a] :
        t \in Optional(TimeTexts), b \in Optional(BodyTexts),
        d \in Optional({<<SentinelText>>}), c \in Optional({ClassCard}), a \in BOOLEAN}

MixedItems == {TextItem, SubmittedItem, AlbumItem, BadLikeItem, BadSourceItem}

ParserInit ==
    /\ \/ /\ html \in SeqsUpTo(MixedItems, MaxItems)
          /\ excluded_images \in {{}, {<<"a">>}}
          /\ readable \in BOOLEAN
       \/ /\ html \in {<<item>> : item \in MediaItems}
          /\ excluded_images \in SUBSET ExclEntries
          /\ readable = TRUE
       \/ /\ html \in {<<item>> : item \in LikeItems}
          /\ excluded_images = {}
          /\ readable = TRUE
       \/ /\ html \in {<<item>> : item \in ClassItems}
          /\ excluded_images = {}
          /\ readable = TRUE
    /\ dynamics = <<>>
    /\ returns = <<>>
    /\ previews = <<>>
    /\ raw_html_data = <<>>
    /\ pc = "idle"
    /\ mode = "none"
    /\ driver = "None"
    /\ exc = "none"
    /\ scroll_count = 0 /\ last_height = 0 /\ new_height = 0
    /\ no_new_content_count = 0 /\ max_wait_time = InitialWait
    /\ current_count = 0 /\ new_dynamics = 0 /\ polls = 0
    /\ ret = <<>> /\ raised = "none"
    /\ height = 0 /\ count = 0 /\ marker = FALSE
    /\ attempt = 0 /\ scrolls = 0 /\ sinceGrowth = 0 /\ nfaults = 0
    /\ firstFault = <<>> /\ afterFault = FALSE /\ absorbed = FALSE
    /\ captured = 0 /\ snapAfterFault = FALSE /\ exitWhy = "none"
    /\ markerAtPoint = FALSE /\ quits = 0
    /\ cycleGrew = FALSE /\ overThreshold = FALSE

ParserNext == parse

SpecParser == ParserInit /\ [][ParserNext]_vars

\* the parser followed by its report writer: the writer reads the records whatever
\* their fields hold, so the mixed snapshots are the inputs
PreviewInit == ParserInit /\ html \in SeqsUpTo(MixedItems, MaxItems)

PreviewNext == parse \/ generate_preview_file

SpecPreview == PreviewInit /\ [][PreviewNext]_vars

(***************************************************************************)
(* Properties of the traditional-mode harvest (specification Spec)         *)
(***************************************************************************)
TradLoopPcs == {"head", "count", "scroll", "poll", "after_poll", "wait", "recheck"}

\* C1: when the page has stopped growing, the terminal marker never appears and no
\* fault occurs, the harvester leaves the scroll loop by the stall heuristic after
\* exactly StallThreshold scroll commands issued since the page last grew.
StallExitAfterThreeCycles ==
    ( /\ mode = "traditional"
      /\ pc = "extract"
      /\ exitWhy \in {"stall_inner", "stall_wait"}
      /\ ~marker
      /\ firstFault = <<>> )
    => sinceGrowth = StallThreshold

\* C2: in a fault-free traditional harvest, once the terminal marker is present while
\* the harvester is at the loop head, inside a cycle after its scroll (inner poll and
\* what follows) or at the growth wait and the re-check after it, no further
\* scroll-to-bottom command is issued and the harvester stays
\* on the way to the snapshot (it never takes the failure path), whatever the stall
\* counter is and whether or not the page grew in the same poll.
MarkerPrecedence ==
    [][ ( /\ mode = "traditional"
          /\ pc \in TradLoopPcs
          /\ markerAtPoint
          /\ firstFault' = <<>> )
        => ( /\ scrolls' = scrolls
             /\ pc' \in TradLoopPcs \cup {"extract"}
             /\ pc' \notin {"count", "scroll"} ) ]_vars

\* C2 witness: a fault-free harvest that scrolled, saw growth (stall counter reset)
\* and then left the loop on the marker found at the head of the loop.
MarkerPrecedenceWitness ==
    /\ mode = "traditional"
    /\ pc = "extract"
    /\ exitWhy = "marker"
    /\ markerAtPoint
    /\ firstFault = <<>>
    /\ scrolls >= 1
    /\ no_new_content_count = 0
    /\ last_height = height

\* C4: the value a finished scrape_raw call returns holds exactly the snapshots
\* captured during that call: one when it captured, none otherwise, and never a
\* snapshot of an earlier call.
OneSnapshotPerAttempt ==
    (pc = "idle" /\ attempt >= 1 /\ raised = "none")
    => ret = IF captured = 1 THEN <<attempt>> ELSE <<>>

\* C5: after a driver fault in the boot waits, the marker query, a count or height
\* poll, the scroll command or the growth wait of a traditional harvest, no further
\* scroll or poll is issued, no snapshot is captured, and the call returns no snapshot.
DriverFaultIsFatal ==
    ( /\ mode = "traditional"
      /\ firstFault # <<>>
      /\ firstFault[1] = "fault"
      /\ firstFault[2] \in {"boot", "marker", "count", "poll", "final_check", "scroll",
                            "wait", "recheck"} )
    => ( /\ ~afterFault
         /\ ~snapAfterFault
         /\ (pc = "idle" => ret = <<>>) )

\* C6: after a stop signal delivered during a traditional harvest, the signal is not
\* swallowed with the loop continuing, no driver command is issued and no snapshot
\* is taken.
StopSignalIsFatal ==
    ( /\ mode = "traditional"
      /\ firstFault # <<>>
      /\ firstFault[1] = "stop" )
    => ( /\ ~absorbed
         /\ ~afterFault
         /\ ~snapAfterFault )

(***************************************************************************)
(* Properties of the extraction (specification SpecParser)                 *)
(***************************************************************************)
AllDigits(t) == t # <<>> /\ \A i \in DOMAIN t : t[i] \in Digits
NoDigits(t) == \A i \in DOMAIN t : t[i] \notin Digits
IsDecimal(t) ==
    \E k \in 2..(Len(t) - 1) :
        /\ t[k] = "."
        /\ AllDigits(SubSeq(t, 1, k - 1))
        /\ AllDigits(SubSeq(t, k + 1, Len(t)))
EndsInMarker(t) ==
    /\ Len(t) >= 2
    /\ t[Len(t)] = "W"
    /\ AllDigits(SubSeq(t, 1, Len(t) - 1)) \/ IsDecimal(SubSeq(t, 1, Len(t) - 1))

\* the like count the claim states for the texts it names
StatedLike(t) ==
    IF EndsInMarker(t) THEN TimesTenThousand(SubSeq(t, 1, Len(t) - 1))
    ELSE IF AllDigits(t) THEN ToInt(t)
    ELSE 0

SchemeQualified(u) ==
    \E k \in 2..Len(u) : u[k] = ":" /\ \A j \in 1..(k - 1) : u[j] \in Letters

OutputUrls(r) ==
    r.images
    \cup (IF r.video = <<>> THEN {} ELSE {r.video[1].link, r.video[1].cover} \ {<<>>})

CheckedUrls(r) ==
    r.images \cup (IF r.video = <<>> THEN {} ELSE {r.video[1].cover} \ {<<>>})

\* C3: every parse() call on one parser object returns the sequence the first call
\* returned.
ParseIdempotent ==
    readable => \A i \in DOMAIN returns : returns[i] = returns[1]

\* C7: parse() returns exactly one record per item whose field rules do not raise,
\* in document order, each equal to the record of that item alone.
MalformedItemIsolation ==
    (readable /\ returns # <<>>)
    => LET good == SelectSeq(html, LAMBDA item : ParseItem(item) # <<>>)
           last == returns[Len(returns)]
       IN  /\ Len(last) = Len(good)
           /\ \A k \in DOMAIN good : last[k] = ParseItem(good[k])[1]

\* C8: no URL in the mediaLinks of a produced record and no produced video cover
\* contains an entry of the exclusion list, the URL taken as it is output.
ExclusionContainment ==
    \A i \in DOMAIN dynamics :
        \A u \in CheckedUrls(dynamics[i]) :
            \A excluded \in excluded_images : ~Contains(u, excluded)

\* C8 witness: a record was produced from an item with a protocol-relative image (or
\* cover, or srcset candidate) that matches an exclusion entry only once it is
\* normalized, and the record does not carry it.
ExclusionContainmentWitness ==
    /\ dynamics # <<>>
    /\ Len(html) = 1
    /\ \E u \in Range(ImageSources(html[1]))
              \cup {FirstCandidate(ss) : ss \in Range(html[1].sources)} :
          /\ StartsWith(u, Slashes)
          /\ \E excluded \in excluded_images :
                Contains(AddScheme(u), excluded) /\ ~Contains(u, excluded)
          /\ AddScheme(u) \notin CheckedUrls(dynamics[1])

\* C9: every URL output in mediaLinks, video link or video cover is scheme-qualified.
LinksSchemeQualified ==
    \A i \in DOMAIN dynamics :
        \A u \in OutputUrls(dynamics[i]) : SchemeQualified(u)

\* C10: for an item whose like node is absent or whose like text is a plain integer,
\* a decimal or integer followed by the ten-thousand marker, a text without digits,
\* or a decimal without the marker, parse() produces a record and its like count is
\* the stated one (0 in the last two cases and for the absent node).
LikeCounterParsing ==
    (readable /\ returns # <<>> /\ Len(html) = 1 /\ html[1] \in LikeItems)
    => LET node == html[1].like
           named == \/ node = <<>>
                    \/ AllDigits(node[1]) \/ EndsInMarker(node[1])
                    \/ NoDigits(node[1]) \/ IsDecimal(node[1])
       IN  named => /\ Len(returns[1]) = 1
                    /\ returns[1][1].like_count
                         = IF node = <<>> THEN 0 ELSE StatedLike(node[1])


(***************************************************************************)
(* Classification (parser lines 263-298) and the fields that follow from   *)
(* it                                                                      *)
(***************************************************************************)
\* the first parse() of a snapshot all of whose items gave a record: record k is item k's
FirstPass == returns # <<>> /\ Len(returns[1]) = Len(html)

\* C11: a record whose publish time is the sentinel date but whose text content is
\* anything other than the sentinel text itself (a longer text containing it included)
\* is never Pinned -- the "only if" half of: Pinned exactly when the date is the
\* sentinel date and the text equals the sentinel text
PinnedExclusivity ==
    \A i \in DOMAIN dynamics :
        /\ dynamics[i].publish_time = <<SentinelDate>>
        /\ dynamics[i].text_content # <<SentinelText>>
        => dynamics[i].dynamic_type # "Pinned"

\* the video variant the time text selects (lines 289-291)
VideoVariant(item) ==
    IF item.time # <<>> /\ Contains(item.time[1], <<SubmittedMarker>>)
      THEN "SubmittedVideo" ELSE "DynamicVideo"

HasCardAndGallery(item) == item.card # <<>> /\ item.album

\* C12 as stated: every item with both a video card and a gallery is classified as the
\* video variant its time text selects, whatever its time text and rich text are
CardAndGalleryIsVideo ==
    FirstPass =>
        \A k \in DOMAIN html :
            HasCardAndGallery(html[k]) =>
                returns[1][k].dynamic_type = VideoVariant(html[k])

\* C12 amended: an item with both a video card and a gallery is never ImagePost; it is
\* the video variant its time text selects unless the pinned rule, which is tested
\* first, classifies it as Pinned
CardAndGalleryNeverImagePost ==
    FirstPass =>
        \A k \in DOMAIN html :
            HasCardAndGallery(html[k]) =>
                /\ returns[1][k].dynamic_type # "ImagePost"
                /\ \/ returns[1][k].dynamic_type = VideoVariant(html[k])
                   \/ /\ returns[1][k].dynamic_type = "Pinned"
                      /\ returns[1][k].publish_time = <<SentinelDate>>

CardAndGalleryWitness ==
    /\ FirstPass
    /\ \E k \in DOMAIN html :
          /\ HasCardAndGallery(html[k])
          /\ html[k].content # <<>>
          /\ html[k].time # <<>>
          /\ returns[1][k].dynamic_type = "SubmittedVideo"

\* C13: in every record parse() produced, the video fields are present only when the
\* type is SubmittedVideo or DynamicVideo, also when the item holds a video card
VideoInfoOnlyForVideoTypes ==
    /\ \A i \in DOMAIN dynamics :
          dynamics[i].video # <<>>
              => dynamics[i].dynamic_type \in {"SubmittedVideo", "DynamicVideo"}
    /\ \A n \in DOMAIN returns : \A i \in DOMAIN returns[n] :
          returns[n][i].dynamic_type \in {"Pinned", "ImagePost", "TextPost"}
              => returns[n][i].video = <<>>

\* a Pinned record made from an item that holds a video card
VideoInfoWitness ==
    /\ FirstPass
    /\ \E k \in DOMAIN html :
          /\ html[k].card # <<>>
          /\ returns[1][k].dynamic_type = "Pinned"
          /\ returns[1][k].video = <<>>

PreviewFailureKeepsRecords ==
    [][ /\ Len(previews') = Len(previews) + 1
        /\ previews'[Len(previews')].failed
        => /\ previews'[Len(previews')].result = <<>>
           /\ dynamics' = dynamics ]_vars

\* a call failed after the first of several blocks was written
PreviewFailureWitness ==
    /\ Len(dynamics) >= 2
    /\ \E n \in DOMAIN previews :
          previews[n].failed /\ previews[n].written = 1 /\ previews[n].result = <<>>

(***************************************************************************)
(* The scroll loop of the traditional mode (scraper lines 120-237): its    *)
(* end, its timeout and its stall counter                                  *)
(***************************************************************************)
\* C16: on a fault-free driver, a traditional-mode call that entered the scroll loop
\* leaves the loop and returns with one snapshot captured and no error raised (the
\* page stops growing at MaxHeight and MaxCount)
HarvestTerminates ==
    (mode = "traditional" /\ pc = "head")
        ~> (pc = "idle" /\ captured = 1 /\ raised = "none" /\ ret # <<>>)

\* a fault-free call that left the loop on a stall, after several load cycles
HarvestTerminatesWitness ==
    /\ mode = "traditional" /\ pc = "idle" /\ nfaults = 0
    /\ exitWhy \in {"stall_inner", "stall_wait"}
    /\ scrolls >= 3
    /\ captured = 1 /\ raised = "none"

\* C17: max_wait_time adapts: once ten scrolls have been counted it differs from its
\* initial value (longer after a stall, shorter after growth) and lies within
\* [MinWait, MaxWait]
TimeoutAdapts ==
    (mode = "traditional" /\ pc \in TradLoopPcs /\ scroll_count >= AdjustEvery
                          /\ nfaults = 0)
        => /\ max_wait_time # InitialWait
           /\ MinWait <= max_wait_time /\ max_wait_time <= MaxWait

\* C18: when the inner wait of a load cycle saw the item count or the height grow, the
\* harvester is still in the loop and no_new_content_count is 0 when the next load
\* cycle begins (no fault occurring)
GrowthResetsCounter ==
    (mode = "traditional" /\ pc = "scroll" /\ cycleGrew /\ nfaults = 0)
        => no_new_content_count = 0

\* C19: whenever a scroll-to-bottom command is about to be issued, the stall counter
\* no_new_content_count is below StallThreshold, also after a cycle in which it reached
\* the threshold and the final item-count check let the loop go on
CounterBelowThresholdAtScroll ==
    (mode = "traditional" /\ pc = "scroll") => no_new_content_count < StallThreshold

\* a scroll was issued after the counter reached the threshold inside a cycle
CounterBelowThresholdWitness ==
    /\ mode = "traditional" /\ pc = "poll"
    /\ overThreshold
    /\ no_new_content_count < StallThreshold

(***************************************************************************)
(* Release of the driver (scraper lines 245-246, 390-391, 470-471)         *)
(***************************************************************************)
\* C20: in every mode and on every way out, a call whose driver was created has called
\* driver.quit() exactly once when it returns, and never before: while the call runs
\* (the only time commands are sent to the driver) the driver is not yet disposed
DriverReleasedOnce ==
    /\ (pc = "idle" /\ attempt >= 1 /\ driver # "None") => (driver = "quit" /\ quits = 1)
    /\ pc # "idle" => (driver # "quit" /\ quits = 0)
    /\ driver = "None" => quits = 0

\* a manual-mode call that a stop signal ended, with its driver disposed of
DriverReleasedWitness ==
    /\ pc = "idle" /\ mode = "manual"
    /\ raised = "KeyboardInterrupt"
    /\ driver = "quit" /\ quits = 1

====
